---------------------------- MODULE Spec2Model ----------------------------
(***************************************************************************)
(* Model of run.py: the Telegram signal copier bot.                        *)
(*                                                                         *)
(*   - ParseSignal            text -> trade dictionary                     *)
(*   - GetTradeInformation /  risk table                                   *)
(*     CreateTable                                                         *)
(*   - ConnectMetaTrader      the MetaApi connection / order pipeline      *)
(*   - the ConversationHandler built in main() and its callbacks           *)
(*                                                                         *)
(* Numbers: a Python float is modelled as an integer number of hundredths  *)
(* (1.10 is 110).  A line of text is the sequence of its whitespace        *)
(* separated tokens; a text is the sequence of its lines.                  *)
(***************************************************************************)
EXTENDS Integers, Sequences, FiniteSets, TLC

(***************************************************************************)
(* Bounds of the model.                                                    *)
(***************************************************************************)
\* longest text (in lines) an operator sends
MaxLines == 9

(***************************************************************************)
(* Tokens and the string functions the code applies to them.               *)
(***************************************************************************)
\* float(token): the tokens Python's float() accepts, with their value in
\* hundredths; float() raises ValueError on every other token
FloatOf ==
  ("0.01" :> 1) @@ ("0.02" :> 2) @@ ("0.90" :> 90) @@ ("1.00" :> 100) @@
  ("1.10" :> 110) @@ ("1.20" :> 120) @@ ("1.30" :> 130) @@
  ("0.07" :> 7) @@ ("1" :> 100) @@ ("140.9" :> 14090) @@ ("141.0" :> 14100) @@
  ("141.1" :> 14110) @@ ("141.2" :> 14120) @@ ("141.3" :> 14130)

IsFloat(tok) == tok \in DOMAIN FloatOf

\* str.upper() on the tokens that occur as the last token of line 0
Upper(tok) ==
  CASE tok = "eurusd" -> "EURUSD"
    [] tok = "gbpjpy" -> "GBPJPY"
    [] tok = "abc"    -> "ABC"
    [] tok = "Sell"   -> "SELL"
    [] tok = "buy"    -> "BUY"
    [] tok = "US30Cash" -> "US30CASH"
    [] OTHER          -> tok

\* str.lower()
Lower(tok) ==
  CASE tok = "BUY"    -> "buy"
    [] tok = "Sell"   -> "sell"
    [] tok = "SELL"   -> "sell"
    [] tok = "HOLD"   -> "hold"
    [] tok = "EURUSD" -> "eurusd"
    [] tok = "NOW"    -> "now"
    [] tok = "Alerte" -> "alerte"
    [] tok = "Info"   -> "info"
    [] OTHER          -> tok

\* 'sub' in line.lower(): no token of the model straddles a blank, so the
\* substring test is a test on the lower-cased tokens of the line
Contains(line, sub) == \E i \in 1..Len(line) : Lower(line[i]) = sub

\* (line.split())[-1]; IndexError on a blank line
HasLast(line) == Len(line) > 0
Last(line) == line[Len(line)]


(***************************************************************************)
(* The texts an operator sends.  A well-formed signal is                   *)
(*     BUY EURUSD / Entry NOW / LOTS 0.02 / Multiplier 0.01 / SL 0.90 /    *)
(*     TP 1.10 / TP 1.20 / TP 1.30                                         *)
(* and the texts of the model are its prefixes (1..MaxLines lines, a ninth *)
(* and later line is a remark), each with at most one line damaged: blank, *)
(* or its last token replaced by a word that is not a number.              *)
(***************************************************************************)
Headers == { <<"BUY", "EURUSD">>, <<"Sell", "gbpjpy">>, <<"HOLD", "EURUSD">> }
EntryTokens == { "NOW", "1.00", "abc" }

SignalLine(i, header, entry) ==
  CASE i = 1 -> header
    [] i = 2 -> <<"Entry", entry>>
    [] i = 3 -> <<"LOTS", "0.02">>
    [] i = 4 -> <<"Multiplier", "0.01">>
    [] i = 5 -> <<"SL", "0.90">>
    [] i = 6 -> <<"TP", "1.10">>
    [] i = 7 -> <<"TP", "1.20">>
    [] i = 8 -> <<"TP", "1.30">>
    [] OTHER -> <<"remark", "abc">>

Damage(line, how) ==
  CASE how = "blank" -> << >>
    [] how = "junk"  -> [line EXCEPT ![Len(line)] = "abc"]
    [] OTHER         -> line

MkText(header, entry, n, at, how) ==
  [i \in 1..n |-> IF i = at THEN Damage(SignalLine(i, header, entry), how)
                            ELSE SignalLine(i, header, entry)]

Texts ==
  { MkText(<<"BUY", "EURUSD">>, e, n, 0, "none") : e \in EntryTokens, n \in 1..MaxLines }
  \cup
  { MkText(h, "NOW", n, 0, "none") : h \in Headers, n \in 1..MaxLines }
  \cup
  { MkText(<<"BUY", "EURUSD">>, "NOW", MaxLines, at, how) :
      at \in 1..MaxLines, how \in {"junk", "blank"} }

(***************************************************************************)
(* ParseSignal (run.py 164-221).  The result is the trade dictionary, the  *)
(* empty dictionary, or the exception the function raises; the statements  *)
(* are evaluated in the order of the source, so the first one that raises  *)
(* decides the exception.                                                  *)
(***************************************************************************)
\* trade['Entry'] holds a str or a float: the two are kept apart by a tag
Str(tok) == [type |-> "str", s |-> tok, v |-> 0]
Float(x) == [type |-> "float", s |-> "", v |-> x]

Raise(e) == [status |-> e, trade |-> << >>]
Return(t) == [status |-> "ok", trade |-> t]
EmptyDict == [status |-> "empty", trade |-> << >>]

\* the exception float((signal[i].split())[-1]) raises, "" when it raises none
\* (i counts lines from 0, as the source does)
FloatError(signal, i) ==
  IF i + 1 > Len(signal) THEN "IndexError"
  ELSE IF ~HasLast(signal[i + 1]) THEN "IndexError"
  ELSE IF ~IsFloat(Last(signal[i + 1])) THEN "ValueError"
  ELSE ""

FloatAt(signal, i) == FloatOf[Last(signal[i + 1])]

\* the lines float() is applied to, in the order the source evaluates them
FloatLines(signal) ==
  <<4, 5>> \o (IF Len(signal) > 6 THEN <<6>> ELSE << >>)
           \o (IF Len(signal) > 7 THEN <<7>> ELSE << >>)
           \o <<2, 3>>

RECURSIVE FirstError(_, _, _)
FirstError(signal, lines, k) ==
  IF k > Len(lines) THEN ""
  ELSE IF FloatError(signal, lines[k]) # "" THEN FloatError(signal, lines[k])
  ELSE FirstError(signal, lines, k + 1)

\* OrderTypeOf, were a first line without sell or buy taken for a buy
OrderTypeOfDefaultsBuy(line) ==
  IF Contains(line, "sell") THEN "Sell" ELSE "Buy"

OrderTypeOf(line) ==
  IF Contains(line, "sell") THEN "Sell"
  ELSE IF Contains(line, "buy") THEN "Buy"
  ELSE ""

\* trade['Entry'] (run.py 194-198): the last token of line 1 as it stands when
\* the order type is Buy or Sell, float() of it otherwise
EntryError(signal, orderType) ==
  IF Len(signal) < 2 THEN "IndexError"
  ELSE IF ~HasLast(signal[2]) THEN "IndexError"
  ELSE IF orderType = "Buy" \/ orderType = "Sell" THEN ""
  ELSE FloatError(signal, 1)

EntryOf(signal, orderType) ==
  IF orderType = "Buy" \/ orderType = "Sell"
    THEN Str(Last(signal[2]))
    ELSE Float(FloatAt(signal, 1))

ParseSignal(signal) ==
  IF Len(signal) = 0 THEN Raise("IndexError")
  ELSE IF OrderTypeOf(signal[1]) = "" THEN EmptyDict
  ELSE IF ~HasLast(signal[1]) THEN Raise("IndexError")
  ELSE IF EntryError(signal, OrderTypeOf(signal[1])) # ""
    THEN Raise(EntryError(signal, OrderTypeOf(signal[1])))
  ELSE IF FirstError(signal, FloatLines(signal), 1) # ""
    THEN Raise(FirstError(signal, FloatLines(signal), 1))
  ELSE Return(
    [ OrderType    |-> OrderTypeOf(signal[1]),
      Symbol       |-> Upper(Last(signal[1])),
      Entry        |-> EntryOf(signal, OrderTypeOf(signal[1])),
      StopLoss     |-> FloatAt(signal, 4),
      TP           |-> <<FloatAt(signal, 5)>>
                       \o (IF Len(signal) > 6 THEN <<FloatAt(signal, 6)>> ELSE << >>)
                       \o (IF Len(signal) > 7 THEN <<FloatAt(signal, 7)>> ELSE << >>),
      PositionSize |-> FloatAt(signal, 2),
      Multiplier   |-> FloatAt(signal, 3) ])

(***************************************************************************)
(* GetTradeInformation and CreateTable (run.py 224-299).                   *)
(***************************************************************************)
Abs(x) == IF x < 0 THEN -x ELSE x

\* Python's round(a / b): to the nearest integer, a tie to the even one
Round(a, b) ==
  LET n == IF b < 0 THEN -a ELSE a
      d == Abs(b)
      q == n \div d
      r == n % d
  IN  IF 2 * r < d THEN q
      ELSE IF 2 * r > d THEN q + 1
      ELSE IF q % 2 = 0 THEN q ELSE q + 1

RECURSIVE Sum(_)
Sum(seq) == IF Len(seq) = 0 THEN 0 ELSE seq[1] + Sum(Tail(seq))

\* CreateTable, were the profit of a take profit that of the whole position
CreateTableWholeSize(trade, balance, stopLossPips, takeProfitPips) ==
  LET potentialLoss == trade.PositionSize * 10 * stopLossPips * Len(takeProfitPips)
      profits == [i \in 1..Len(takeProfitPips) |->
                    trade.PositionSize * 10 * takeProfitPips[i]]
  IN  [ OrderType      |-> trade.OrderType,
        Symbol         |-> trade.Symbol,
        Entry          |-> trade.Entry.v,
        PositionSize   |-> trade.PositionSize,
        Risk           |-> Round(potentialLoss * 100, balance),
        Multiplier     |-> trade.Multiplier,
        StopLoss       |-> stopLossPips,
        TP             |-> takeProfitPips,
        Balance        |-> balance,
        Profits        |-> profits,
        TotalProfit    |-> Sum(profits),
        PotentialLoss  |-> potentialLoss ]

\* amounts of money are in hundredths, as every float of the model: with the
\* position size p hundredths of a lot, p/100 * 10 * pips * N is p * 10 * pips * N
\* hundredths, and p/100 * 10 * (1/N) * pips is round(p * 10 * pips / N) hundredths
CreateTable(trade, balance, stopLossPips, takeProfitPips) ==
  LET potentialLoss == trade.PositionSize * 10 * stopLossPips * Len(takeProfitPips)
      profits == [i \in 1..Len(takeProfitPips) |->
                    Round(trade.PositionSize * 10 * takeProfitPips[i], Len(takeProfitPips))]
  IN  [ OrderType      |-> trade.OrderType,
        Symbol         |-> trade.Symbol,
        Entry          |-> trade.Entry.v,
        PositionSize   |-> trade.PositionSize,
        Risk           |-> Round(potentialLoss * 100, balance),
        Multiplier     |-> trade.Multiplier,
        StopLoss       |-> stopLossPips,
        TP             |-> takeProfitPips,
        Balance        |-> balance,
        Profits        |-> profits,
        TotalProfit    |-> Sum(profits),
        PotentialLoss  |-> potentialLoss ]

\* the exception GetTradeInformation raises, "" when it raises none: a str
\* Entry cannot be subtracted from a float, and the two divisions can be by zero
TradeInformationError(trade, balance) ==
  IF trade.Entry.type = "str" THEN "TypeError"
  ELSE IF trade.Multiplier = 0 THEN "ZeroDivisionError"
  ELSE IF balance = 0 THEN "ZeroDivisionError"
  ELSE ""

\* the table GetTradeInformation sends with reply_text
GetTradeInformation(trade, balance) ==
  LET stopLossPips == Abs(Round(trade.StopLoss - trade.Entry.v, trade.Multiplier))
      takeProfitPips == [i \in 1..Len(trade.TP) |->
                           Abs(Round(trade.TP[i] - trade.Entry.v, trade.Multiplier))]
  IN  CreateTable(trade, balance, stopLossPips, takeProfitPips)

(***************************************************************************)
(* The MetaApi gateway as one run of ConnectMetaTrader meets it: the state *)
(* of the account, the call that raises (if any; for an order submission,  *)
(* the take profit whose submission raises), the balance and the quote.    *)
(***************************************************************************)
AccountStates == { "DEPLOYED", "DEPLOYING", "UNDEPLOYED" }
Balances == { 0, 100000, -100000 }
Quotes == { [bid |-> 101, ask |-> 102], [bid |-> 103, ask |-> 104] }
Quoted == [bid |-> 101, ask |-> 102]
AwaitedCalls ==
  { "get_account", "deploy", "wait_connected", "connect", "wait_synchronized",
    "get_account_information", "get_symbol_price" }

Gateway(st, r, l, b, q) ==
  [initial_state |-> st, raises |-> r, leg |-> l, balance |-> b, price |-> q]

\* every awaited call raising from every account state; every order submission
\* raising; every balance, at every quote
Gateways ==
  { Gateway(st, r, 0, 100000, Quoted) :
      st \in AccountStates, r \in AwaitedCalls \cup {"none"} }
  \cup
  { Gateway("DEPLOYED", "create_market_order", l, 100000, Quoted) : l \in 1..3 }
  \cup
  { Gateway("DEPLOYED", "none", 0, b, q) : b \in Balances, q \in Quotes }

NoGateway ==
  [initial_state |-> "", raises |-> "none", leg |-> 0, balance |-> 0,
   price |-> [bid |-> 0, ask |-> 0]]

\* one call to the gateway, and whether it returned (ok) or raised
Call(op, ok) ==
  [op |-> op, ok |-> ok, symbol |-> "", volume |-> 0, stopLoss |-> 0, takeProfit |-> 0]
\* Order, were the position size shared among the take profits
OrderOfShare(op, ok, trade, takeProfit) ==
  [op |-> op, ok |-> ok, symbol |-> trade.Symbol,
   volume |-> trade.PositionSize \div Len(trade.TP),
   stopLoss |-> trade.StopLoss, takeProfit |-> takeProfit]

\* lines 366 and 371: the arguments of create_market_buy_order and
\* create_market_sell_order
Order(op, ok, trade, takeProfit) ==
  [op |-> op, ok |-> ok, symbol |-> trade.Symbol, volume |-> trade.PositionSize,
   stopLoss |-> trade.StopLoss, takeProfit |-> takeProfit]

\* one reply_text to the operator
Reply(kind) == [kind |-> kind, error |-> "", table |-> << >>]
ReplyError(kind, error) == [kind |-> kind, error |-> error, table |-> << >>]
ReplyTable(table) == [kind |-> "table", error |-> "", table |-> table]

(***************************************************************************)
(* ConnectMetaTrader (run.py 302-389).                                     *)
(***************************************************************************)
deployed_states == { "DEPLOYING", "DEPLOYED" }

\* Handshake, were the test of the initial state the other way round
HandshakeDeploysDeployed(gw) ==
  <<"get_account">>
  \o (IF gw.initial_state \in deployed_states THEN <<"deploy">> ELSE << >>)
  \o <<"wait_connected", "connect", "wait_synchronized", "get_account_information">>

\* lines 317-338: the awaited calls up to the account information
Handshake(gw) ==
  <<"get_account">>
  \o (IF gw.initial_state \notin deployed_states THEN <<"deploy">> ELSE << >>)
  \o <<"wait_connected", "connect", "wait_synchronized", "get_account_information">>

\* the calls made when ops are awaited one after the other from the k-th on:
\* the one that raises is the last one made
RECURSIVE Await(_, _, _)
Await(ops, gw, k) ==
  IF k > Len(ops) THEN << >>
  ELSE IF gw.raises = ops[k] THEN <<Call(ops[k], FALSE)>>
  ELSE <<Call(ops[k], TRUE)>> \o Await(ops, gw, k + 1)

\* Raised, were an exception dropped instead of ending the run
RaisedIgnored(calls) == FALSE

\* whether the last of the calls raised
Raised(calls) == Len(calls) > 0 /\ ~calls[Len(calls)].ok

\* ResolveEntry, were the ask taken for a buy and the bid for a sell
ResolveEntryAskForBuy(trade, price) ==
  IF trade.OrderType = "Buy" THEN [trade EXCEPT !.Entry = Float(price.ask)]
  ELSE IF trade.OrderType = "Sell" THEN [trade EXCEPT !.Entry = Float(price.bid)]
  ELSE trade

\* lines 343-352: the entry of a market execution is the quoted price
ResolveEntry(trade, price) ==
  IF trade.OrderType = "Buy" THEN [trade EXCEPT !.Entry = Float(price.bid)]
  ELSE IF trade.OrderType = "Sell" THEN [trade EXCEPT !.Entry = Float(price.ask)]
  ELSE trade

OrderCall(trade) ==
  IF trade.OrderType = "Buy" THEN "create_market_buy_order"
  ELSE "create_market_sell_order"

\* SubmitOrders, were each submission in a try of its own: the loop goes on
\* after the submission that raises
RECURSIVE SubmitOrdersEachTried(_, _, _)
SubmitOrdersEachTried(trade, gw, i) ==
  IF i > Len(trade.TP) THEN << >>
  ELSE <<Order(OrderCall(trade), ~(gw.raises = "create_market_order" /\ gw.leg = i),
               trade, trade.TP[i])>>
       \o SubmitOrdersEachTried(trade, gw, i + 1)

\* lines 363-372: one order per take profit, from the i-th on, inside one try:
\* the submission that raises ends the loop
RECURSIVE SubmitOrders(_, _, _)
SubmitOrders(trade, gw, i) ==
  IF i > Len(trade.TP) THEN << >>
  ELSE IF gw.raises = "create_market_order" /\ gw.leg = i
    THEN <<Order(OrderCall(trade), FALSE, trade, trade.TP[i])>>
  ELSE <<Order(OrderCall(trade), TRUE, trade, trade.TP[i])>>
       \o SubmitOrders(trade, gw, i + 1)

\* EnterTrade, were the orders of a trade submitted on every pass of a loop run
\* twice
EnterTradeTwice(trade, gw) ==
  LET orders == SubmitOrders(trade, gw, 1)
      twice  == IF Raised(orders) THEN orders ELSE orders \o orders
      answer == IF Raised(orders) THEN ReplyError("issue", "order") ELSE Reply("success")
  IN  [ calls   |-> twice,
        replies |-> <<Reply("entering"), answer>>,
        events  |-> <<Reply("entering")>> \o twice \o <<answer>> ]

\* EnterTrade, were the success told whatever became of the orders
EnterTradeCheers(trade, gw) ==
  LET orders == IF trade.OrderType \in {"Buy", "Sell"}
                  THEN SubmitOrders(trade, gw, 1) ELSE << >>
  IN  [ calls   |-> orders,
        replies |-> <<Reply("entering"), Reply("success")>>,
        events  |-> <<Reply("entering")>> \o orders \o <<Reply("success")>> ]

\* lines 358-383
EnterTrade(trade, gw) ==
  LET orders == IF trade.OrderType \in {"Buy", "Sell"}
                  THEN SubmitOrders(trade, gw, 1) ELSE << >>
      answer == IF Raised(orders) THEN ReplyError("issue", "order") ELSE Reply("success")
  IN  [ calls   |-> orders,
        replies |-> <<Reply("entering"), answer>>,
        events  |-> <<Reply("entering")>> \o orders \o <<answer>> ]

\* Placement, were enterTrade not looked at
PlacementUnasked(trade, enterTrade, gw) == EnterTrade(trade, gw)

\* lines 357-383: orders are placed only when the caller asked for it
Placement(trade, enterTrade, gw) ==
  IF enterTrade THEN EnterTrade(trade, gw)
  ELSE [calls |-> << >>, replies |-> << >>, events |-> << >>]

\* Report, were the table made and not sent
ReportOmitted(trade, balance) == << >>

\* lines 242-245: the table of the trade is sent to the operator
Report(trade, balance) == <<ReplyTable(GetTradeInformation(trade, balance))>>

\* MarketExecution, were the price asked for in every run
MarketExecutionAlways(trade) == TRUE

\* line 343: the entry of the trade is still to be taken from the market
MarketExecution(trade) == trade.Entry = Str("NOW")

\* the run: the gateway calls made and the replies sent, each on its own and
\* both in the order they happen (events), and the trade dictionary as the run
\* leaves it (the dictionary is the caller's, changed in place)
ConnectMetaTrader(trade, enterTrade, gw) ==
  LET handshake == Await(Handshake(gw), gw, 1)
      market    == MarketExecution(trade)
      quote     == IF market THEN Await(<<"get_symbol_price">>, gw, 1) ELSE << >>
      resolved  == IF market THEN ResolveEntry(trade, gw.price) ELSE trade
      issue(e)  == ReplyError("connection_issue", e)
  IN  IF Raised(handshake)
        THEN [calls |-> handshake, replies |-> <<issue("gateway")>>,
              events |-> handshake \o <<issue("gateway")>>, trade |-> trade]
      ELSE IF Raised(quote)
        THEN [calls |-> handshake \o quote,
              replies |-> <<Reply("connected"), issue("gateway")>>,
              events |-> handshake \o <<Reply("connected")>> \o quote
                         \o <<issue("gateway")>>,
              trade |-> trade]
      ELSE IF TradeInformationError(resolved, gw.balance) # ""
        THEN [calls |-> handshake \o quote,
              replies |-> <<Reply("connected"),
                            issue(TradeInformationError(resolved, gw.balance))>>,
              events |-> handshake \o <<Reply("connected")>> \o quote
                         \o <<issue(TradeInformationError(resolved, gw.balance))>>,
              trade |-> resolved]
      ELSE [calls |-> handshake \o quote \o Placement(resolved, enterTrade, gw).calls,
            replies |-> <<Reply("connected")>> \o Report(resolved, gw.balance)
                        \o Placement(resolved, enterTrade, gw).replies,
            events |-> handshake \o <<Reply("connected")>> \o quote
                       \o Report(resolved, gw.balance)
                       \o Placement(resolved, enterTrade, gw).events,
            trade |-> resolved]

(***************************************************************************)
(* The bot: the handlers main() registers (run.py 596-633) and the state   *)
(* they work on.                                                           *)
(***************************************************************************)
\* the chats that write to the bot; TELEGRAM_USER is the one allowed
TELEGRAM_USER == "operator"
Users == { "operator", "stranger" }

\* the states of the ConversationHandler (run.py 160); END is "no conversation"
CALCULATE == "CALCULATE"
TRADE == "TRADE"
DECISION == "DECISION"
END == "END"

\* context.user_data['trade'] = None
None == [type |-> "None"]

\* a message is a command (its text is the command) or a text
Commands == { "/start", "/help", "/trade", "/calculate", "/yes", "/no", "/cancel" }
Command(c) == [command |-> c, text |-> << <<c>> >>]
Text(t) == [command |-> "", text |-> t]
IsCommand(msg) == msg.command # ""

\* what a chat sends: the allowed chat any command or text; another chat any
\* command or some text (no handler reads the text of a chat that is not allowed)
OperatorMessages == { Command(c) : c \in Commands } \cup { Text(t) : t \in Texts }

StrangerMessages ==
  { Command(c) : c \in Commands }
  \cup { Text(MkText(<<"BUY", "EURUSD">>, "NOW", 6, 0, "none")) }

Messages(u) == IF u = TELEGRAM_USER THEN OperatorMessages ELSE StrangerMessages

VARIABLES
  conversations,  \* chat -> state of its conversation (conv_handler.conversations)
  user_data,      \* chat -> context.user_data['trade']
  calls,          \* the gateway calls made while the last update was handled
  replies,        \* the replies sent while the last update was handled
  events,         \* these calls and replies in the order they happened
  last,           \* the last update: its chat, its handler, the state it met, the
                  \* text if the handler parsed it, the gateway if the handler ran
                  \* ConnectMetaTrader
  InfoTrade,      \* the module-level dictionary of message_handler (run.py 46)
  sent,           \* what message_handler sent to BOT_CHANNEL_SOURCE for the last alert
  event,          \* the last message of the alert channel
  risk            \* a resolved trade and a balance, and the table
                  \* GetTradeInformation makes of them

vars ==
  <<conversations, user_data, calls, replies, events, last, InfoTrade, sent, event, risk>>

\* what the handlers of the bot work on, and what message_handler works on
bot == <<conversations, user_data, calls, replies, events, last>>
channel == <<InfoTrade, sent, event>>

\* ConversationHandler: the handlers of the current state, then the fallbacks;
\* the entry points only when the chat has no conversation
Fallback(msg) == IF msg.command = "/cancel" THEN "cancel" ELSE ""

ConversationHandler(state, msg) ==
  CASE state = END ->
         IF msg.command = "/trade" THEN "Trade_Command"
         ELSE IF msg.command = "/calculate" THEN "Calculation_Command"
         ELSE ""
    [] state = TRADE ->
         IF ~IsCommand(msg) THEN "PlaceTrade" ELSE Fallback(msg)
    [] state = CALCULATE ->
         IF ~IsCommand(msg) THEN "CalculateTrade" ELSE Fallback(msg)
    [] state = DECISION ->
         IF msg.command = "/yes" THEN "PlaceTrade"
         ELSE IF msg.command = "/no" THEN "cancel"
         ELSE Fallback(msg)

\* the dispatcher: the first handler, in the order main() adds them, that
\* accepts the update
Handler(u, msg) ==
  IF msg.command = "/start" THEN "welcome"
  ELSE IF msg.command = "/help" THEN "help"
  ELSE IF ConversationHandler(conversations[u], msg) # ""
    THEN ConversationHandler(conversations[u], msg)
  ELSE "unknown_command"

Update(u, command, signal, handler, gw) ==
  [user |-> u, command |-> command, signal |-> signal, handler |-> handler,
   state |-> conversations[u], trade |-> user_data[u], gw |-> gw]

NoUpdate ==
  [user |-> "", command |-> "", signal |-> << >>, handler |-> "", state |-> END,
   trade |-> None, gw |-> NoGateway]

\* no trade evaluated on its own
NoRisk == [trade |-> None, balance |-> 0, evaluated |-> FALSE, table |-> << >>]

\* InfoTrade = {} (run.py 46): keys holds the keys set so far
NoInfoTrade ==
  [keys |-> {}, TypeOrdre |-> "", Symbole |-> "", Multiplier |-> "",
   StopLoss |-> Str(""), TakeProfits |-> << >>, Lots |-> 0]

\* before the first /trade or /calculate user_data has no 'trade' key; it is
\* read as None here, no handler reading it before an entry command has set it
Init ==
  /\ conversations = [u \in Users |-> END]
  /\ user_data = [u \in Users |-> None]
  /\ calls = << >>
  /\ replies = << >>
  /\ events = << >>
  /\ last = NoUpdate
  /\ InfoTrade = NoInfoTrade
  /\ sent = << >>
  /\ event = << >>
  /\ risk = NoRisk

\* welcome (run.py 490-503)
welcome(u, msg) ==
  /\ Handler(u, msg) = "welcome"
  /\ replies' = <<Reply("welcome")>>
  /\ calls' = << >>
  /\ events' = replies'
  /\ last' = Update(u, msg.command, << >>, "welcome", NoGateway)
  /\ UNCHANGED <<conversations, user_data>>
  /\ UNCHANGED <<channel, risk>>

\* help (run.py 506-524)
help(u, msg) ==
  /\ Handler(u, msg) = "help"
  /\ replies' = <<Reply("commands"), Reply("trade_example")>>
  /\ calls' = << >>
  /\ events' = replies'
  /\ last' = Update(u, msg.command, << >>, "help", NoGateway)
  /\ UNCHANGED <<conversations, user_data>>
  /\ UNCHANGED <<channel, risk>>

\* unknown_command, were the trade kept in one dictionary shared by the chats
\* and dropped on a message that is not understood
unknown_commandDropsTrades(u, msg) ==
  /\ Handler(u, msg) = "unknown_command"
  /\ replies' = IF u # TELEGRAM_USER THEN <<Reply("not_authorized")>>
                                     ELSE <<Reply("unknown_command")>>
  /\ calls' = << >>
  /\ events' = replies'
  /\ last' = Update(u, msg.command, << >>, "unknown_command", NoGateway)
  /\ user_data' = [v \in Users |-> None]
  /\ UNCHANGED conversations
  /\ UNCHANGED <<channel, risk>>

\* unknown_command (run.py 473-486)
unknown_command(u, msg) ==
  /\ Handler(u, msg) = "unknown_command"
  /\ replies' = IF u # TELEGRAM_USER THEN <<Reply("not_authorized")>>
                                     ELSE <<Reply("unknown_command")>>
  /\ calls' = << >>
  /\ events' = replies'
  /\ last' = Update(u, msg.command, << >>, "unknown_command", NoGateway)
  /\ UNCHANGED <<conversations, user_data>>
  /\ UNCHANGED <<channel, risk>>

\* Trade_Command, were the chat not compared with TELEGRAM_USER
Trade_CommandUnchecked(u, msg) ==
  /\ Handler(u, msg) = "Trade_Command"
  /\ calls' = << >>
  /\ last' = Update(u, msg.command, << >>, "Trade_Command", NoGateway)
  /\ user_data' = [user_data EXCEPT ![u] = None]
  /\ replies' = <<Reply("enter_trade")>>
  /\ conversations' = [conversations EXCEPT ![u] = TRADE]
  /\ events' = replies'
  /\ UNCHANGED <<channel, risk>>

\* Trade_Command (run.py 556-573)
Trade_Command(u, msg) ==
  /\ Handler(u, msg) = "Trade_Command"
  /\ calls' = << >>
  /\ last' = Update(u, msg.command, << >>, "Trade_Command", NoGateway)
  /\ IF u # TELEGRAM_USER
       THEN /\ replies' = <<Reply("not_authorized")>>
            /\ conversations' = [conversations EXCEPT ![u] = END]
            /\ UNCHANGED user_data
       ELSE /\ user_data' = [user_data EXCEPT ![u] = None]
            /\ replies' = <<Reply("enter_trade")>>
            /\ conversations' = [conversations EXCEPT ![u] = TRADE]
  /\ events' = replies'
  /\ UNCHANGED <<channel, risk>>

\* Calculation_Command, were it to return TRADE
Calculation_CommandToTrade(u, msg) ==
  /\ Handler(u, msg) = "Calculation_Command"
  /\ calls' = << >>
  /\ last' = Update(u, msg.command, << >>, "Calculation_Command", NoGateway)
  /\ IF u # TELEGRAM_USER
       THEN /\ replies' = <<Reply("not_authorized")>>
            /\ conversations' = [conversations EXCEPT ![u] = END]
            /\ UNCHANGED user_data
       ELSE /\ user_data' = [user_data EXCEPT ![u] = None]
            /\ replies' = <<Reply("enter_calculation")>>
            /\ conversations' = [conversations EXCEPT ![u] = TRADE]
  /\ events' = replies'
  /\ UNCHANGED <<channel, risk>>

\* Calculation_Command (run.py 576-593)
Calculation_Command(u, msg) ==
  /\ Handler(u, msg) = "Calculation_Command"
  /\ calls' = << >>
  /\ last' = Update(u, msg.command, << >>, "Calculation_Command", NoGateway)
  /\ IF u # TELEGRAM_USER
       THEN /\ replies' = <<Reply("not_authorized")>>
            /\ conversations' = [conversations EXCEPT ![u] = END]
            /\ UNCHANGED user_data
       ELSE /\ user_data' = [user_data EXCEPT ![u] = None]
            /\ replies' = <<Reply("enter_calculation")>>
            /\ conversations' = [conversations EXCEPT ![u] = CALCULATE]
  /\ events' = replies'
  /\ UNCHANGED <<channel, risk>>

\* cancel, were the trade left in user_data
cancelKeepsTrade(u, msg) ==
  /\ Handler(u, msg) = "cancel"
  /\ replies' = <<Reply("cancelled")>>
  /\ calls' = << >>
  /\ events' = replies'
  /\ conversations' = [conversations EXCEPT ![u] = END]
  /\ last' = Update(u, msg.command, << >>, "cancel", NoGateway)
  /\ UNCHANGED user_data
  /\ UNCHANGED <<channel, risk>>

\* cancel (run.py 527-540)
cancel(u, msg) ==
  /\ Handler(u, msg) = "cancel"
  /\ replies' = <<Reply("cancelled")>>
  /\ calls' = << >>
  /\ events' = replies'
  /\ user_data' = [user_data EXCEPT ![u] = None]
  /\ conversations' = [conversations EXCEPT ![u] = END]
  /\ last' = Update(u, msg.command, << >>, "cancel", NoGateway)
  /\ UNCHANGED <<channel, risk>>

\* lines 402-422 and 442-462: the text is parsed only when no trade is stored;
\* a text that does not parse is answered with the format and the state is kept
ParseFailed(u, msg) ==
  user_data[u] = None /\ ParseSignal(msg.text).status # "ok"

ParseError(msg) ==
  IF ParseSignal(msg.text).status = "empty"
    THEN "Invalid Trade" ELSE ParseSignal(msg.text).status

\* the text the handler parses, the trade ConnectMetaTrader is run on, and the
\* reply that precedes the run
Parsed(u, msg) == IF user_data[u] = None THEN msg.text ELSE << >>

ParsedTrade(u, msg) ==
  IF user_data[u] = None THEN ParseSignal(msg.text).trade ELSE user_data[u]

ParsedReply(u) == IF user_data[u] = None THEN <<Reply("parsed")>> ELSE << >>

\* PlaceTradeReattempt, were the conversation ended on a text that does not parse
PlaceTradeGivesUp(u, msg) ==
  /\ ParseFailed(u, msg)
  /\ replies' = <<ReplyError("parse_error", ParseError(msg))>>
  /\ calls' = << >>
  /\ events' = replies'
  /\ conversations' = [conversations EXCEPT ![u] = END]
  /\ last' = Update(u, msg.command, msg.text, "PlaceTrade", NoGateway)
  /\ UNCHANGED user_data

\* PlaceTrade, lines 416-422: the text did not parse
PlaceTradeReattempt(u, msg) ==
  /\ ParseFailed(u, msg)
  /\ replies' = <<ReplyError("parse_error", ParseError(msg))>>
  /\ calls' = << >>
  /\ events' = replies'
  /\ conversations' = [conversations EXCEPT ![u] = TRADE]
  /\ last' = Update(u, msg.command, msg.text, "PlaceTrade", NoGateway)
  /\ UNCHANGED user_data

\* PlaceTradeConnect, were the trade left in user_data after the run
PlaceTradeKeepsTrade(u, msg) ==
  /\ ~ParseFailed(u, msg)
  /\ \E gw \in Gateways :
       LET run == ConnectMetaTrader(ParsedTrade(u, msg), TRUE, gw)
       IN  /\ replies' = ParsedReply(u) \o run.replies
           /\ calls' = run.calls
           /\ events' = ParsedReply(u) \o run.events
           /\ user_data' = [user_data EXCEPT ![u] = run.trade]
           /\ conversations' = [conversations EXCEPT ![u] = END]
           /\ last' = Update(u, msg.command, Parsed(u, msg), "PlaceTrade", gw)

\* PlaceTrade, lines 412-414 and 424-430: the trade is placed and forgotten
PlaceTradeConnect(u, msg) ==
  /\ ~ParseFailed(u, msg)
  /\ \E gw \in Gateways :
       LET run == ConnectMetaTrader(ParsedTrade(u, msg), TRUE, gw)
       IN  /\ replies' = ParsedReply(u) \o run.replies
           /\ calls' = run.calls
           /\ events' = ParsedReply(u) \o run.events
           /\ user_data' = [user_data EXCEPT ![u] = None]
           /\ conversations' = [conversations EXCEPT ![u] = END]
           /\ last' = Update(u, msg.command, Parsed(u, msg), "PlaceTrade", gw)

\* PlaceTrade (run.py 393-430)
PlaceTrade(u, msg) ==
  /\ Handler(u, msg) = "PlaceTrade"
  /\ \/ PlaceTradeReattempt(u, msg)
     \/ PlaceTradeConnect(u, msg)
  /\ UNCHANGED <<channel, risk>>

\* CalculateTradeReattempt, were the exception of the parser dropped without
\* a word
CalculateTradeReattemptSilent(u, msg) ==
  /\ ParseFailed(u, msg)
  /\ replies' = << >>
  /\ calls' = << >>
  /\ events' = replies'
  /\ conversations' = [conversations EXCEPT ![u] = CALCULATE]
  /\ last' = Update(u, msg.command, msg.text, "CalculateTrade", NoGateway)
  /\ UNCHANGED user_data

\* CalculateTrade, lines 456-462: the text did not parse
CalculateTradeReattempt(u, msg) ==
  /\ ParseFailed(u, msg)
  /\ replies' = <<ReplyError("parse_error", ParseError(msg))>>
  /\ calls' = << >>
  /\ events' = replies'
  /\ conversations' = [conversations EXCEPT ![u] = CALCULATE]
  /\ last' = Update(u, msg.command, msg.text, "CalculateTrade", NoGateway)
  /\ UNCHANGED user_data

\* CalculateTradeConnect, were the conversation ended and the trade forgotten
\* when the run did not get to the risk table
CalculateTradeEndsOnIssue(u, msg) ==
  /\ ~ParseFailed(u, msg)
  /\ \E gw \in Gateways :
       LET run == ConnectMetaTrader(ParsedTrade(u, msg), FALSE, gw)
           issue == \E i \in 1..Len(run.replies) : run.replies[i].kind = "connection_issue"
       IN  /\ replies' = ParsedReply(u) \o run.replies
                         \o (IF issue THEN << >> ELSE <<Reply("decision")>>)
           /\ calls' = run.calls
           /\ events' = ParsedReply(u) \o run.events
                        \o (IF issue THEN << >> ELSE <<Reply("decision")>>)
           /\ user_data' = [user_data EXCEPT ![u] = IF issue THEN None ELSE run.trade]
           /\ conversations' = [conversations EXCEPT ![u] = IF issue THEN END ELSE DECISION]
           /\ last' = Update(u, msg.command, Parsed(u, msg), "CalculateTrade", gw)

\* CalculateTradeConnect, were the trade dropped before the decision is asked
CalculateTradeForgets(u, msg) ==
  /\ ~ParseFailed(u, msg)
  /\ \E gw \in Gateways :
       LET run == ConnectMetaTrader(ParsedTrade(u, msg), FALSE, gw)
       IN  /\ replies' = ParsedReply(u) \o run.replies \o <<Reply("decision")>>
           /\ calls' = run.calls
           /\ events' = ParsedReply(u) \o run.events \o <<Reply("decision")>>
           /\ user_data' = [user_data EXCEPT ![u] = None]
           /\ conversations' = [conversations EXCEPT ![u] = DECISION]
           /\ last' = Update(u, msg.command, Parsed(u, msg), "CalculateTrade", gw)

\* CalculateTrade, lines 452-454 and 464-470: the trade is evaluated and kept
CalculateTradeConnect(u, msg) ==
  /\ ~ParseFailed(u, msg)
  /\ \E gw \in Gateways :
       LET run == ConnectMetaTrader(ParsedTrade(u, msg), FALSE, gw)
       IN  /\ replies' = ParsedReply(u) \o run.replies \o <<Reply("decision")>>
           /\ calls' = run.calls
           /\ events' = ParsedReply(u) \o run.events \o <<Reply("decision")>>
           /\ user_data' = [user_data EXCEPT ![u] = run.trade]
           /\ conversations' = [conversations EXCEPT ![u] = DECISION]
           /\ last' = Update(u, msg.command, Parsed(u, msg), "CalculateTrade", gw)

\* CalculateTrade (run.py 433-470)
CalculateTrade(u, msg) ==
  /\ Handler(u, msg) = "CalculateTrade"
  /\ \/ CalculateTradeReattempt(u, msg)
     \/ CalculateTradeConnect(u, msg)
  /\ UNCHANGED <<channel, risk>>

Next ==
  \E u \in Users : \E msg \in Messages(u) :
    \/ welcome(u, msg)
    \/ help(u, msg)
    \/ Trade_Command(u, msg)
    \/ Calculation_Command(u, msg)
    \/ PlaceTrade(u, msg)
    \/ CalculateTrade(u, msg)
    \/ cancel(u, msg)
    \/ unknown_command(u, msg)

Spec == Init /\ [][Next]_vars

(***************************************************************************)
(* message_handler (run.py 49-137): the alerts of the channel               *)
(* NAME_CHANNEL_SOURCE are rewritten as signals and sent to the bot.  An    *)
(* alert is the message as clean(), splitlines() and rstrip() leave it: a   *)
(* sequence of lines, each a sequence of tokens.  A well-formed alert is    *)
(*     Alerte / J'achete le (BTCUSD) a 1.00 / Stop loss : 0.90 /            *)
(*     Take profit 1 : 1.10 / Take profit 2 : 1.20                          *)
(***************************************************************************)
SYMBOLES ==
  << "AUDCAD", "AUDCHF", "AUDJPY", "AUDNZD", "AUDUSD", "CADCHF", "CADJPY", "CHFJPY",
     "EURAUD", "EURCAD", "EURCHF", "EURGBP", "EURJPY", "EURNZD", "EURUSD", "GBPAUD",
     "GBPCAD", "GBPCHF", "GBPJPY", "GBPNZD", "GBPUSD", "NZDCAD", "NZDCHF", "NZDJPY",
     "NZDUSD", "USDCAD", "USDCHF", "USDJPY", "XAGUSD", "XAUUSD", "DAX40", "DJ30",
     "US30", "ETHUSD", "BTCUSD" >>
SYMBOLES_FXLIFT ==
  << "AUDCAD", "AUDCHF", "AUDJPY", "AUDNZD", "AUDUSD", "CADCHF", "CADJPY", "CHFJPY",
     "EURAUD", "EURCAD", "EURCHF", "EURGBP", "EURJPY", "EURNZD", "EURUSD", "GBPAUD",
     "GBPCAD", "GBPCHF", "GBPJPY", "GBPNZD", "GBPUSD", "NZDCAD", "NZDCHF", "NZDJPY",
     "NZDUSD", "USDCAD", "USDCHF", "USDJPY", "XAGUSD", "XAUUSD", "GER40_U3", "US30Cash",
     "US30Cash", "ETHUSD", "BTCUSD" >>
MULTIPLIER ==
  << "0,0001", "0,0001", "0,01", "0,0001", "0,0001", "0,0001", "0,01", "0,01",
     "0,0001", "0,0001", "0,0001", "0,0001", "0,01", "0,0001", "0,0001", "0,0001",
     "0,0001", "0,0001", "0,01", "0,0001", "0,0001", "0,0001", "0,0001", "0,01",
     "0,0001", "0,0001", "0,0001", "0,01", "0,01", "0,01", "1", "1",
     "1", "1", "1" >>

\* x in t, and t.index(x)
In(t, x) == \E i \in 1..Len(t) : t[i] = x
Index(t, x) == CHOOSE i \in 1..Len(t) : t[i] = x /\ \A j \in 1..(i - 1) : t[j] # x

\* str(x) of the floats message_handler formats, x in hundredths
FloatRepr ==
  (1 :> "0.01") @@ (2 :> "0.02") @@ (7 :> "0.07") @@ (14090 :> "140.9") @@
  (14100 :> "141.0") @@ (14110 :> "141.1") @@ (14120 :> "141.2") @@ (14130 :> "141.3")

\* the alerts: the first word, the words that give the side, the symbol in
\* brackets, and up to MaxTakes lines of take profits
MaxTakes == 4
SideWords == { <<"J'achete">>, <<"Je", "vends">> }
AlertSymbols == { "(EURUSD)", "(XAUUSD)", "(BTCUSD)", "(US30)", "(DAX40)" }
TakeToken(i) ==
  IF i = 1 THEN "1.10" ELSE IF i = 2 THEN "1.20" ELSE IF i = 3 THEN "1.30" ELSE "1.00"
Ordinal(i) == IF i = 1 THEN "1" ELSE IF i = 2 THEN "2" ELSE IF i = 3 THEN "3" ELSE "n"

\* how an alert is damaged: a blank line after it, or a stop loss line
\* without ': '
MkAlert(head, side, symbol, n, how) ==
  << <<head>>, side \o <<"le", symbol, "a", "1.00">> >>
  \o << IF how = "nocolon" THEN <<"Stop", "loss", "0.90">>
                           ELSE <<"Stop", "loss", ":", "0.90">> >>
  \o [i \in 1..n |-> <<"Take", "profit", Ordinal(i), ":", TakeToken(i)>>]
  \o (IF how = "blank" THEN << << >> >> ELSE << >>)

\* every side with every symbol and one to three take profits; none and
\* MaxTakes take profits, a symbol that is not in SYMBOLES, other words for
\* the side, a message that is no alert, the damaged ones and the short ones
Alerts ==
  { MkAlert("Alerte", side, symbol, n, "none") :
      side \in SideWords, symbol \in AlertSymbols, n \in 1..3 }
  \cup { MkAlert("Alerte", <<"J'achete">>, "(BTCUSD)", n, "none") : n \in {0, MaxTakes} }
  \cup { MkAlert("Alerte", <<"Je", "vends">>, "(DAX40)", n, "none") : n \in {0, MaxTakes} }
  \cup { MkAlert("Alerte", <<"J'achete">>, "(FOO)", 1, "none"),
         MkAlert("Alerte", <<"Achat">>, "(BTCUSD)", 1, "none"),
         MkAlert("Info", <<"J'achete">>, "(BTCUSD)", 1, "none") }
  \cup { MkAlert("Alerte", <<"J'achete">>, "(BTCUSD)", 1, how) : how \in {"blank", "nocolon"} }
  \cup { << >>, << <<"Alerte">> >> }

\* what one call of message_handler leaves: the dictionary and the messages
\* sent to the bot; an exception is answered with the error message (lines
\* 133-135), a return sends nothing
Erreur == Text(<< <<"There", "was", "an", "issue">> >>)
Excepted(info) == [InfoTrade |-> info, sent |-> <<Erreur>>]
Returned(info) == [InfoTrade |-> info, sent |-> << >>]

\* lines 59-64: the side is read off the first eight characters of line 1
TypeOrdreOf(line) ==
  IF Len(line) >= 1 /\ line[1] = "J'achete" THEN "BUY"
  ELSE IF Len(line) >= 2 /\ line[1] = "Je" /\ line[2] = "vends" THEN "SELL"
  ELSE ""

\* lines 69-73: removeprefix('(') and removesuffix(')') on a token with a '('
Unparen(tok) ==
  CASE tok = "(EURUSD)" -> "EURUSD"
    [] tok = "(XAUUSD)" -> "XAUUSD"
    [] tok = "(BTCUSD)" -> "BTCUSD"
    [] tok = "(US30)"   -> "US30"
    [] tok = "(DAX40)"  -> "DAX40"
    [] tok = "(FOO)"    -> "FOO"
    [] OTHER            -> tok

\* lines 67-80: the tokens of line 1 that are in SYMBOLES, in their order; the
\* last of them is the one the loop leaves in SymbolesLOTS and in InfoTrade
Matched(line) ==
  SelectSeq([i \in 1..Len(line) |-> Unparen(line[i])], LAMBDA t : In(SYMBOLES, t))

SetSymbole(info, line) ==
  IF Matched(line) = << >> THEN info
  ELSE [info EXCEPT !.Symbole = SYMBOLES_FXLIFT[Index(SYMBOLES, Last(Matched(line)))],
                    !.Multiplier = MULTIPLIER[Index(SYMBOLES, Last(Matched(line)))],
                    !.keys = @ \cup {"Symbole", "Multiplier"}]

\* line.split(': ')[1].split(' ')[0]: the token after the colon; IndexError
\* when the line has no ': '
HasValue(line) == \E i \in 1..(Len(line) - 1) : line[i] = ":"
ValueOf(line) == line[1 + CHOOSE i \in 1..(Len(line) - 1) :
                            line[i] = ":" /\ \A j \in 1..(i - 1) : line[j] # ":"]

\* lines 83-86 and 94-102: a level is kept as the str of the alert, or for
\* GER40_U3 as float() of it plus 140; ValueError when float() refuses it
LevelError(info, tok) == info.Symbole = "GER40_U3" /\ ~IsFloat(tok)
Level(info, tok) ==
  IF info.Symbole = "GER40_U3" THEN Float(FloatOf[tok] + 14000) ELSE Str(tok)

\* lines 89-104: every line whose first word is Take is a take profit; the
\* first one starts the list anew, the next ones are appended; j is the line
\* looked at and y the take profits found before it
RECURSIVE Takes(_, _, _, _)
Takes(message, info, j, y) ==
  IF j > Len(message) THEN [InfoTrade |-> info, raised |-> FALSE]
  ELSE IF ~HasLast(message[j]) THEN [InfoTrade |-> info, raised |-> TRUE]
  ELSE IF message[j][1] # "Take" THEN Takes(message, info, j + 1, y)
  ELSE IF ~HasValue(message[j]) THEN [InfoTrade |-> info, raised |-> TRUE]
  ELSE IF LevelError(info, ValueOf(message[j])) THEN [InfoTrade |-> info, raised |-> TRUE]
  ELSE Takes(message,
             [info EXCEPT !.TakeProfits =
                            IF y = 0 THEN <<Level(info, ValueOf(message[j]))>>
                            ELSE Append(@, Level(info, ValueOf(message[j]))),
                          !.keys = @ \cup {"TakeProfits"}],
             j + 1, y + 1)

\* lines 107-119: the lots of the symbol of the alert
LotsOf(SymbolesLOTS) ==
  IF SymbolesLOTS = "ETHUSD" THEN 7
  ELSE IF SymbolesLOTS = "BTCUSD" THEN 2
  ELSE IF SymbolesLOTS = "XAUUSD" THEN 1
  ELSE IF SymbolesLOTS \in {"DAX40", "DJ30", "US30"} THEN 1
  ELSE 2

\* an f-string field: a str as it is, a float by str()
Format(x) == IF x.type = "str" THEN x.s ELSE FloatRepr[x.v]

\* lines 121-126: the signal, with the first three take profits at most
MessageSIGNAL(info) ==
  << <<info.TypeOrdre, info.Symbole>>,
     <<"Entry", "NOW">>,
     <<"LOTS", FloatRepr[info.Lots]>>,
     <<"Multiplier", info.Multiplier>>,
     <<"SL", Format(info.StopLoss)>> >>
  \o [i \in 1..(IF Len(info.TakeProfits) >= 3 THEN 3 ELSE Len(info.TakeProfits)) |->
        <<"TP", Format(info.TakeProfits[i])>>]

\* lines 83-131, from the stop loss on: info has the side and the symbol set
Forward(message, info) ==
  IF Len(message) < 3 \/ ~HasValue(message[3]) THEN Excepted(info)
  ELSE IF LevelError(info, ValueOf(message[3])) THEN Excepted(info)
  ELSE LET stopped == [info EXCEPT !.StopLoss = Level(info, ValueOf(message[3])),
                                   !.keys = @ \cup {"StopLoss"}]
           taken   == Takes(message, stopped, 1, 0)
           lotted  == [taken.InfoTrade EXCEPT
                         !.Lots = LotsOf(Last(Matched(message[2]))),
                         !.keys = @ \cup {"Lots"}]
       IN  IF taken.raised THEN Excepted(taken.InfoTrade)
           ELSE IF Matched(message[2]) = << >> THEN Excepted(taken.InfoTrade)
           ELSE IF "TakeProfits" \notin lotted.keys THEN Excepted(lotted)
           ELSE [InfoTrade |-> lotted,
                 sent |-> <<Command("/trade"), Text(MessageSIGNAL(lotted))>>]

\* lines 56-135: what message_handler does with a message when the dictionary
\* is info
Translate(message, info) ==
  IF Len(message) = 0 THEN Excepted(info)
  ELSE IF ~HasLast(message[1]) THEN Excepted(info)
  ELSE IF Lower(message[1][1]) # "alerte" THEN Returned(info)
  ELSE IF Len(message) < 2 THEN Excepted(info)
  ELSE IF TypeOrdreOf(message[2]) = "" THEN Returned(info)
  ELSE LET sided   == [info EXCEPT !.TypeOrdre = TypeOrdreOf(message[2]),
                                   !.keys = @ \cup {"TypeOrdre"}]
           symbole == SetSymbole(sided, message[2])
       IN  IF "Symbole" \notin symbole.keys THEN Excepted(symbole)
           ELSE Forward(message, symbole)

\* message_handler (run.py 49-137)
message_handler(message) ==
  /\ LET out == Translate(message, InfoTrade)
     IN  /\ InfoTrade' = out.InfoTrade
         /\ sent' = out.sent
  /\ event' = message
  /\ UNCHANGED <<bot, risk>>

NextChannel == \E message \in Alerts : message_handler(message)

SpecChannel == Init /\ [][NextChannel]_vars

(***************************************************************************)
(* GetTradeInformation and CreateTable (run.py 224-299) on their own: the  *)
(* trades are the resolved ones ParseSignal and the quote can leave, over  *)
(* a few levels, sizes and multipliers, with an account balance that is    *)
(* not zero.                                                               *)
(***************************************************************************)
MaxTP == 3
Levels == { 90, 101, 115 }
Entries == { 100, 101 }
PositionSizes == { 1, 2, 7 }
Multipliers == { 1, 100 }
RiskBalances == { 100000, 33300, -100000 }

TakeProfitLists == UNION { [1..n -> Levels] : n \in 1..MaxTP }

ResolvedTrades ==
  { [OrderType |-> o, Symbol |-> "EURUSD", Entry |-> Float(e), StopLoss |-> sl,
     TP |-> tp, PositionSize |-> p, Multiplier |-> m] :
      o \in {"Buy", "Sell"}, e \in Entries, sl \in Levels, tp \in TakeProfitLists,
      p \in PositionSizes, m \in Multipliers }

InitRisk ==
  /\ conversations = [u \in Users |-> END]
  /\ user_data = [u \in Users |-> None]
  /\ calls = << >>
  /\ replies = << >>
  /\ events = << >>
  /\ last = NoUpdate
  /\ InfoTrade = NoInfoTrade
  /\ sent = << >>
  /\ event = << >>
  /\ risk \in { [trade |-> t, balance |-> b, evaluated |-> FALSE, table |-> << >>] :
                  t \in ResolvedTrades, b \in RiskBalances }

\* the call of line 355 on the trade and the balance
Evaluate ==
  /\ ~risk.evaluated
  /\ TradeInformationError(risk.trade, risk.balance) = ""
  /\ risk' = [risk EXCEPT !.evaluated = TRUE,
                          !.table = GetTradeInformation(risk.trade, risk.balance)]
  /\ UNCHANGED <<bot, channel>>

NextRisk == Evaluate

SpecRisk == InitRisk /\ [][NextRisk]_vars

(***************************************************************************)
(* What the properties below read off the last update.                     *)
(***************************************************************************)
OrderCalls == { "create_market_buy_order", "create_market_sell_order" }
IsOrder(c) == c.op \in OrderCalls
Orders == SelectSeq(calls, IsOrder)

Sent(kind) == \E i \in 1..Len(replies) : replies[i].kind = kind
NumSent(kind) == Cardinality({ i \in 1..Len(replies) : replies[i].kind = kind })

\* the last update ran ConnectMetaTrader, and with which enterTrade
Ran == last.handler \in {"PlaceTrade", "CalculateTrade"} /\ last.gw # NoGateway
EnterTradeAsked == last.handler = "PlaceTrade"

\* the last update was given to ParseSignal, and what the parser made of it
ParseAttempted ==
  last.handler \in {"PlaceTrade", "CalculateTrade"} /\ last.trade = None
Parse == ParseSignal(last.signal)

\* the trade the last run was started on
RunTrade == IF last.trade = None THEN Parse.trade ELSE last.trade

\* an awaited call before the order submissions raised
AwaitedRaised == \E i \in 1..Len(calls) : ~IsOrder(calls[i]) /\ ~calls[i].ok

\* the risk calculation cannot be done on the inputs of the last run: the
\* entry is a string other than NOW, or the multiplier or the balance is zero
RiskInputBad ==
  \/ RunTrade.Entry.type = "str" /\ RunTrade.Entry # Str("NOW")
  \/ RunTrade.Multiplier = 0
  \/ last.gw.balance = 0

\* C1: a run in which a stage before the order placement fails (an awaited
\* gateway call raises, or the risk calculation cannot be done) sends the
\* failure notice and submits no order, whatever enterTrade is.
C1_FailureBeforeOrdersSubmitsNothing ==
  (Ran /\ (AwaitedRaised \/ RiskInputBad)) =>
    /\ Sent("connection_issue")
    /\ Orders = << >>
    /\ ~Sent("success")

\* C1, its case: a run asked to place orders whose risk calculation failed on
\* a zero balance after every gateway call had returned.
C1_Witness ==
  /\ Ran /\ EnterTradeAsked
  /\ ~AwaitedRaised
  /\ last.gw.balance = 0
  /\ RunTrade.Entry = Str("NOW")
  /\ Sent("connection_issue")

\* the order phase of the last run was reached: orders were asked for and
\* every stage before them succeeded
OrderPhase == Ran /\ EnterTradeAsked /\ ~AwaitedRaised /\ ~RiskInputBad

\* the take profit whose submission raises in the last run, 0 if none does
FailingLeg ==
  IF last.gw.raises = "create_market_order" /\ last.gw.leg <= Len(RunTrade.TP)
    THEN last.gw.leg ELSE 0

C3_ConfirmSubmitsOncePerTarget ==
  /\ (last.command = "/yes" /\ last.state = DECISION) =>
       /\ last.handler = "PlaceTrade"
       /\ last.trade # None
       /\ Len(Orders) <= Len(last.trade.TP)
       /\ \A i \in 1..Len(Orders) : Orders[i].takeProfit = last.trade.TP[i]
       /\ (OrderPhase /\ FailingLeg = 0 => Len(Orders) = Len(last.trade.TP))
       /\ conversations[last.user] = END
       /\ user_data[last.user] = None
  /\ (last.command = "/yes" /\ last.state # DECISION) =>
       /\ last.handler = "unknown_command"
       /\ calls = << >>
       /\ conversations[last.user] = last.state
       /\ user_data[last.user] = last.trade

\* C3, its case: a confirmed trade with three take profits, three orders.
C3_Witness ==
  /\ last.command = "/yes" /\ last.state = DECISION
  /\ Len(last.trade.TP) = 3
  /\ Len(Orders) = 3
  /\ Sent("success")
  /\ conversations[last.user] = END

\* C4: orders are submitted only by PlaceTrade, on a text met in TRADE or a
\* /yes met in DECISION, of the allowed chat; CalculateTrade never submits
\* one; after a text that parses, PlaceTrade ends the conversation and
\* CalculateTrade moves it to DECISION.
C4_OrdersOnlyFromTradeOrConfirm ==
  /\ Orders # << >> =>
       /\ last.handler = "PlaceTrade"
       /\ last.user = TELEGRAM_USER
       /\ \/ last.state = TRADE /\ last.command = ""
          \/ last.state = DECISION /\ last.command = "/yes"
  /\ last.handler = "CalculateTrade" => Orders = << >>
  /\ (ParseAttempted /\ Parse.status = "ok") =>
       conversations[last.user] =
         (IF last.handler = "PlaceTrade" THEN END ELSE DECISION)

\* C4, its case: a calculation that went through to the risk table, with no
\* order submitted, now waiting for the decision.
C4_Witness ==
  /\ last.handler = "CalculateTrade"
  /\ Ran /\ Sent("table")
  /\ Orders = << >>
  /\ conversations[last.user] = DECISION

\* C5: a text that does not parse leaves the conversation in the state that
\* received it (TRADE or CALCULATE) with no trade stored, is answered by the
\* parse failure notice alone, makes no gateway call, and every text that
\* parses is then taken by the same handler.
C5_ParseFailureKeepsState ==
  (ParseAttempted /\ Parse.status # "ok") =>
    /\ last.state \in {TRADE, CALCULATE}
    /\ conversations[last.user] = last.state
    /\ user_data[last.user] = None
    /\ replies = <<ReplyError("parse_error",
                              IF Parse.status = "empty" THEN "Invalid Trade"
                                                        ELSE Parse.status)>>
    /\ calls = << >>
    /\ \A t \in Texts :
         ParseSignal(t).status = "ok" =>
           /\ Handler(last.user, Text(t)) = last.handler
           /\ ~ParseFailed(last.user, Text(t))

\* C5, its case: a text with a word where the stop loss should be, sent for a
\* calculation.
C5_Witness ==
  /\ ParseAttempted /\ last.handler = "CalculateTrade"
  /\ Parse.status = "ValueError"
  /\ conversations[last.user] = CALCULATE
  /\ Sent("parse_error")

\* the last run ended on a connection failure: one of the calls up to the
\* account information raised
ConnectionCalls ==
  { "get_account", "deploy", "wait_connected", "connect", "wait_synchronized",
    "get_account_information" }
ConnectionFailed ==
  Ran /\ \E i \in 1..Len(calls) : calls[i].op \in ConnectionCalls /\ ~calls[i].ok

\* C6 as claimed: after a run that ended on a connection failure the chat has
\* no conversation and no order was placed, in the trade flow and in the
\* calculate flow alike.
C6_ConnectionFailureEndsFlow ==
  ConnectionFailed =>
    /\ conversations[last.user] = END
    /\ Orders = << >>

\* C6 amended: a run that ended on a connection failure placed no order and
\* sent the failure notice; after it PlaceTrade (a text in TRADE, a /yes in
\* DECISION) leaves the chat without conversation and without trade, while
\* CalculateTrade still asks for the decision and leaves the chat in DECISION
\* with the parsed trade stored.
C6_ConnectionFailureByFlow ==
  ConnectionFailed =>
    /\ Orders = << >>
    /\ Sent("connection_issue")
    /\ last.handler = "PlaceTrade" =>
         conversations[last.user] = END /\ user_data[last.user] = None
    /\ last.handler = "CalculateTrade" =>
         /\ conversations[last.user] = DECISION
         /\ user_data[last.user] = Parse.trade
         /\ Sent("decision")

\* C6, its case: a calculation whose wait for the broker connection failed,
\* now in DECISION with the trade.
C6_Witness ==
  /\ ConnectionFailed
  /\ last.handler = "CalculateTrade"
  /\ last.gw.raises = "wait_connected"
  /\ conversations[last.user] = DECISION
  /\ user_data[last.user] # None

\* C7 as claimed: the Entry of a parsed trade is the market marker, exactly
\* when the last token of line 1 is NOW, or a decimal; a trade whose Entry is
\* a string other than NOW is never stored.
C7_EntryIsMarkerOrDecimal ==
  /\ (ParseAttempted /\ Parse.status = "ok") =>
       /\ (Parse.trade.Entry = Str("NOW")) = (Last(last.signal[2]) = "NOW")
       /\ Parse.trade.Entry # Str("NOW") => Parse.trade.Entry.type = "float"
  /\ \A u \in Users :
       user_data[u] # None =>
         user_data[u].Entry = Str("NOW") \/ user_data[u].Entry.type = "float"

\* the fields of a trade dictionary
TradeKeys ==
  { "OrderType", "Symbol", "Entry", "StopLoss", "TP", "PositionSize", "Multiplier" }

\* the failures of a text: no buy or sell on the first line, fewer than six
\* lines, no number at the end of one of the lines 2 to 7 (counted from 0)
\* that the text has
NoOrderType(t) == ~Contains(t[1], "sell") /\ ~Contains(t[1], "buy")
TooShort(t) == Len(t) < 6
NotANumber(t) ==
  \E i \in 3..8 : i <= Len(t) /\ (~HasLast(t[i]) \/ ~IsFloat(Last(t[i])))

\* C8: a text either parses to a trade with all seven fields, an order type
\* of Buy or Sell, a symbol and one to three take profits (one per line 5, 6
\* and 7 that the text has; later lines are not read), which CalculateTrade
\* stores, or it does not parse and nothing is stored; a text with no buy or
\* sell on its first line, with fewer than six lines, or with no number where
\* the parser reads one does not parse.
C8_ParseAllOrNothing ==
  ParseAttempted =>
    /\ Parse.status = "ok" =>
         /\ DOMAIN Parse.trade = TradeKeys
         /\ Parse.trade.OrderType \in {"Buy", "Sell"}
         /\ Parse.trade.Symbol # ""
         /\ Len(Parse.trade.TP) \in 1..3
         /\ Len(Parse.trade.TP) = (IF Len(last.signal) > 8 THEN 8 ELSE Len(last.signal)) - 5
         /\ last.handler = "CalculateTrade" =>
              /\ user_data[last.user] # None
              /\ DOMAIN user_data[last.user] = TradeKeys
              /\ \A k \in TradeKeys \ {"Entry"} : user_data[last.user][k] = Parse.trade[k]
    /\ Parse.status # "ok" =>
         /\ Parse.trade = << >>
         /\ user_data[last.user] = None
    /\ (NoOrderType(last.signal) \/ TooShort(last.signal) \/ NotANumber(last.signal)) =>
         Parse.status # "ok"

\* C8, its case: a nine line text parsed for a calculation, three take
\* profits stored.
C8_Witness ==
  /\ ParseAttempted /\ last.handler = "CalculateTrade"
  /\ Len(last.signal) = 9
  /\ Parse.status = "ok"
  /\ user_data[last.user] # None
  /\ Len(user_data[last.user].TP) = 3

\* C9: /cancel met in TRADE, CALCULATE or DECISION, and /no met in DECISION,
\* go to cancel, which leaves the chat without conversation and without
\* trade and makes no gateway call.
C9_CancelClears ==
  /\ \/ last.command = "/cancel" /\ last.state \in {TRADE, CALCULATE, DECISION}
     \/ last.command = "/no" /\ last.state = DECISION
     => last.handler = "cancel"
  /\ last.handler = "cancel" =>
       /\ conversations[last.user] = END
       /\ user_data[last.user] = None
       /\ calls = << >>
       /\ replies = <<Reply("cancelled")>>

\* C9, its case: a /no on a stored trade.
C9_Witness ==
  /\ last.command = "/no" /\ last.state = DECISION
  /\ last.trade # None
  /\ last.handler = "cancel"
  /\ user_data[last.user] = None

\* C10: a chat without conversation has no trade stored.
C10_IdleHasNoTrade ==
  \A u \in Users : conversations[u] = END => user_data[u] = None

\* C10, its case: a conversation that held a trade has ended on a /yes.
C10_Witness ==
  /\ last.handler = "PlaceTrade" /\ last.state = DECISION
  /\ last.trade # None
  /\ conversations[last.user] = END
  /\ user_data[last.user] = None

\* the last update was /trade or /calculate
EntryCommands == { "/trade", "/calculate" }
EntryCommandMet == last.command \in EntryCommands

\* the state the entry command asks for
AwaitedText == IF last.command = "/trade" THEN TRADE ELSE CALCULATE

\* C11: /trade or /calculate sent by a chat other than TELEGRAM_USER is
\* answered with the one refusal and with nothing else, and changes nothing:
\* the state of that chat's conversation and its stored trade are as before
\* and no gateway call is made.
C11_StrangerIsRefused ==
  (EntryCommandMet /\ last.user \in Users \ {TELEGRAM_USER}) =>
    /\ replies = <<Reply("not_authorized")>>
    /\ conversations[last.user] = last.state
    /\ user_data[last.user] = last.trade
    /\ calls = << >>

\* C11, its case: another chat sends /calculate, and is refused by
\* Calculation_Command, while the allowed chat is deciding on a trade.
C11_Witness ==
  /\ last.user = "stranger"
  /\ last.command = "/calculate"
  /\ last.handler = "Calculation_Command"
  /\ replies = <<Reply("not_authorized")>>
  /\ conversations[TELEGRAM_USER] = DECISION
  /\ user_data[TELEGRAM_USER] # None

\* C12 as stated: /trade or /calculate of the allowed chat, met in any state,
\* leaves the conversation awaiting the text of that command with no trade
\* stored.
C12_EntryCommandAlwaysRestarts ==
  (EntryCommandMet /\ last.user = TELEGRAM_USER) =>
    /\ conversations[TELEGRAM_USER] = AwaitedText
    /\ user_data[TELEGRAM_USER] = None

\* C12, amended: /trade or /calculate of the allowed chat met with no
\* conversation leaves the conversation awaiting the text of that command
\* with no trade stored; met in a conversation (TRADE, CALCULATE or DECISION)
\* it is no entry point: it is answered as an unknown command and the state
\* and the stored trade are as before.
C12_EntryCommandStartsFromEnd ==
  (EntryCommandMet /\ last.user = TELEGRAM_USER) =>
    IF last.state = END
      THEN /\ conversations[TELEGRAM_USER] = AwaitedText
           /\ user_data[TELEGRAM_USER] = None
           /\ last.handler \in {"Trade_Command", "Calculation_Command"}
      ELSE /\ last.handler = "unknown_command"
           /\ replies = <<Reply("unknown_command")>>
           /\ conversations[TELEGRAM_USER] = last.state
           /\ user_data[TELEGRAM_USER] = last.trade

\* C12, its case: /trade met while a calculated trade awaits the decision.
C12_Witness ==
  /\ EntryCommandMet /\ last.user = TELEGRAM_USER
  /\ last.command = "/trade"
  /\ last.state = DECISION
  /\ last.trade # None
  /\ conversations[TELEGRAM_USER] = DECISION
  /\ user_data[TELEGRAM_USER] = last.trade

\* where in the events of the last update the table was sent and the orders
\* were submitted
IsReply(e) == "kind" \in DOMAIN e
TablePositions ==
  { i \in 1..Len(events) : IsReply(events[i]) /\ events[i].kind = "table" }
OrderPositions ==
  { i \in 1..Len(events) : ~IsReply(events[i]) /\ IsOrder(events[i]) }

\* the last run got through the risk calculation
RiskCalculated == Ran /\ ~AwaitedRaised /\ ~RiskInputBad

\* C13: a run that gets through the risk calculation sends the table of the
\* trade exactly once, whether enterTrade is True or False, and sends it
\* before the first order is submitted.
C13_OneReportBeforeOrders ==
  RiskCalculated =>
    /\ Cardinality(TablePositions) = 1
    /\ \A i \in TablePositions : \A j \in OrderPositions : i < j

\* C13, its case: /yes after a calculation: the run with enterTrade True
\* sends its one table and then submits three orders.
C13_Witness ==
  /\ RiskCalculated /\ EnterTradeAsked
  /\ last.state = DECISION
  /\ Cardinality(TablePositions) = 1
  /\ Cardinality(OrderPositions) = 3

\* the last run got to the entry of the trade: every call up to the account
\* information returned
Connected == Ran /\ Sent("connected")

PriceCalls == SelectSeq(calls, LAMBDA c : c.op = "get_symbol_price")

\* the price the gateway of the last run quotes for the side of the trade
QuotedEntry ==
  IF RunTrade.OrderType = "Buy" THEN Float(last.gw.price.bid)
  ELSE Float(last.gw.price.ask)

\* the entry of the trade after the last run is e, as far as the run shows
\* it: in the trade CalculateTrade leaves stored, and in the table sent
EntryAfterRun(e) ==
  /\ last.handler = "CalculateTrade" => user_data[last.user].Entry = e
  /\ \A i \in TablePositions : events[i].table.Entry = e.v

\* C14: a run that gets to the entry of the trade and finds it 'NOW' asks
\* the gateway for the price once and, when the price comes, sets the entry
\* to the bid for a Buy and to the ask for a Sell; a run that finds any
\* other entry asks for no price and leaves the entry as it was.
C14_EntryResolvedFromQuote ==
  Connected =>
    IF RunTrade.Entry = Str("NOW")
      THEN /\ Len(PriceCalls) = 1
           /\ PriceCalls[1].ok => EntryAfterRun(QuotedEntry)
      ELSE /\ Len(PriceCalls) = 0
           /\ EntryAfterRun(RunTrade.Entry)

\* C14, its case: the calculation of a Sell at 'NOW': the price is fetched
\* once and the stored entry is the ask.
C14_Witness ==
  /\ Connected
  /\ last.handler = "CalculateTrade"
  /\ RunTrade.Entry = Str("NOW")
  /\ RunTrade.OrderType = "Sell"
  /\ Len(PriceCalls) = 1 /\ PriceCalls[1].ok
  /\ user_data[last.user].Entry = Float(last.gw.price.ask)
  /\ TablePositions # {}

\* C16 as stated: a run that gets the account information with a balance
\* that is zero or negative fails at the risk calculation: it sends no table
\* and submits no order, for the zero and for every negative balance alike.
C16_NonPositiveBalanceFailsFast ==
  (Connected /\ last.gw.raises = "none" /\ last.gw.balance <= 0) =>
    /\ TablePositions = {}
    /\ Orders = << >>

\* the replies that tell the operator of a failure, and where in the events
\* of the last update one of them was sent
FailureNotices == { "parse_error", "connection_issue", "issue" }
NoticePositions ==
  { i \in 1..Len(events) : IsReply(events[i]) /\ events[i].kind \in FailureNotices }

\* where in the events of the last update a gateway call raised
RaisedPositions ==
  { i \in 1..Len(events) : ~IsReply(events[i]) /\ ~events[i].ok }

\* C17: whatever fails while an update of the operator is handled, a notice
\* of the failure is sent before the handler returns: the format notice for
\* a text that does not parse, the connection notice for a gateway call
\* before the orders that raises and for a risk calculation that cannot be
\* done, the issue notice for an order submission that raises; the notice
\* comes after the call that raised.
C17_EveryFailureIsNotified ==
  /\ (ParseAttempted /\ Parse.status # "ok") => Sent("parse_error")
  /\ (Ran /\ AwaitedRaised) => Sent("connection_issue")
  /\ (Ran /\ ~AwaitedRaised /\ RiskInputBad) => Sent("connection_issue")
  /\ (\E i \in 1..Len(calls) : IsOrder(calls[i]) /\ ~calls[i].ok) => Sent("issue")
  /\ \A i \in RaisedPositions : \E j \in NoticePositions : i < j

\* C17, its case: the submission of the second of three orders raises and
\* the issue notice is the last thing the run sends.
C17_Witness ==
  /\ Ran /\ EnterTradeAsked
  /\ Len(Orders) = 2 /\ Orders[1].ok /\ ~Orders[2].ok
  /\ Len(RunTrade.TP) = 3
  /\ Len(events) \in NoticePositions
  /\ events[Len(events)].kind = "issue"

\* C18: the conversations of different chats are independent: handling an
\* update of one chat leaves the conversation state and the stored trade of
\* every other chat as they were.
C18_OtherSessionsUntouched ==
  [][\A v \in Users :
       v # last'.user =>
         /\ conversations'[v] = conversations[v]
         /\ user_data'[v] = user_data[v]]_vars

\* C18, its case: while the allowed chat holds a calculated trade and awaits
\* the decision, another chat sends /yes: it is refused, no order is
\* submitted and the trade is still stored, awaiting the decision.
C18_Witness ==
  /\ last.user = "stranger"
  /\ last.command = "/yes"
  /\ last.handler = "unknown_command"
  /\ conversations[TELEGRAM_USER] = DECISION
  /\ user_data[TELEGRAM_USER] # None
  /\ calls = << >>

\* the stage of a run an event belongs to, 0 for a reply other than the table
StageOf(e) ==
  IF IsReply(e) THEN (IF e.kind = "table" THEN 8 ELSE 0)
  ELSE CASE e.op = "get_account" -> 1
         [] e.op = "deploy" -> 2
         [] e.op = "wait_connected" -> 3
         [] e.op = "connect" -> 4
         [] e.op = "wait_synchronized" -> 5
         [] e.op = "get_account_information" -> 6
         [] e.op = "get_symbol_price" -> 7
         [] OTHER -> 9

StageEvents == SelectSeq(events, LAMBDA e : StageOf(e) > 0)

\* the account of the last run has to be deployed first
DeployNeeded == last.gw.initial_state \notin { "DEPLOYING", "DEPLOYED" }

\* the stages that come before stage r in the last run
StagesBefore(r) ==
  { q \in {1, 3, 4, 5, 6} : q < r }
  \cup (IF r > 2 /\ DeployNeeded THEN {2} ELSE {})
  \cup (IF r > 7 /\ RunTrade.Entry = Str("NOW") THEN {7} ELSE {})
  \cup (IF r > 8 THEN {8} ELSE {})

\* C19: in a run the stages come in the one order get_account, deploy,
\* wait_connected, connect, wait_synchronized, get_account_information,
\* get_symbol_price, risk table, orders; deploy is called if and only if the
\* initial state of the account is neither DEPLOYING nor DEPLOYED; a stage
\* is started only when every stage before it has been done and has not
\* raised; no stage is done twice and no take profit gets a second order.
C19_StagesInOrder ==
  Ran =>
    /\ \A i, j \in 1..Len(StageEvents) :
         i < j =>
           \/ StageOf(StageEvents[i]) < StageOf(StageEvents[j])
           \/ StageOf(StageEvents[i]) = 9 /\ StageOf(StageEvents[j]) = 9
    /\ \A j \in 1..Len(StageEvents) :
         \A q \in StagesBefore(StageOf(StageEvents[j])) :
           \E i \in 1..(j - 1) : StageOf(StageEvents[i]) = q
    /\ \A i \in 1..(Len(calls) - 1) : calls[i].ok
    /\ (\E i \in 1..Len(calls) : calls[i].op = "deploy")
         <=> (calls[1].ok /\ DeployNeeded)
    /\ Len(Orders) <= Len(RunTrade.TP)
    /\ \A k \in 1..Len(Orders) : Orders[k].takeProfit = RunTrade.TP[k]

\* C19, its case: a run on an account that is not deployed, for a trade at
\* 'NOW' with three take profits: all eleven stages are done, in order.
C19_Witness ==
  /\ Ran
  /\ last.gw.initial_state = "UNDEPLOYED"
  /\ [i \in 1..Len(StageEvents) |-> StageOf(StageEvents[i])]
       = <<1, 2, 3, 4, 5, 6, 7, 8, 9, 9, 9>>
  /\ \A i \in 1..Len(calls) : calls[i].ok

\* C20: the k-th order of a run is a market order on the symbol of the
\* trade, a buy order for a Buy and a sell order for a Sell, for the whole
\* position size of the trade, with the stop loss of the trade and the k-th
\* take profit.
C20_OrderCarriesTrade ==
  Ran =>
    \A k \in 1..Len(Orders) :
      /\ Orders[k].op = (IF RunTrade.OrderType = "Buy"
                           THEN "create_market_buy_order"
                           ELSE "create_market_sell_order")
      /\ RunTrade.OrderType \in {"Buy", "Sell"}
      /\ Orders[k].symbol = RunTrade.Symbol
      /\ Orders[k].volume = RunTrade.PositionSize
      /\ Orders[k].stopLoss = RunTrade.StopLoss
      /\ k <= Len(RunTrade.TP)
      /\ Orders[k].takeProfit = RunTrade.TP[k]

\* C20, its case: a Sell with two take profits: two sell orders, each for
\* the whole position size, the first at the first take profit and the
\* second at the second.
C20_Witness ==
  /\ Ran
  /\ RunTrade.OrderType = "Sell"
  /\ Len(RunTrade.TP) = 2
  /\ RunTrade.TP[1] # RunTrade.TP[2]
  /\ RunTrade.PositionSize > 1
  /\ Len(Orders) = 2
  /\ Orders[1].op = "create_market_sell_order"
  /\ Orders[2].volume = RunTrade.PositionSize
  /\ Orders[2].takeProfit = RunTrade.TP[2]

\* the last message of the channel was sent on as a signal, and what
\* ParseSignal makes of the signal
Forwarded == Len(sent) = 2 /\ sent[1] = Command("/trade")
ForwardedParse == ParseSignal(sent[2].text)

\* the number a level of InfoTrade stands for
IsNumber(x) == x.type = "float" \/ IsFloat(x.s)
NumberOf(x) == IF x.type = "float" THEN x.v ELSE FloatOf[x.s]

\* C15 as stated: every signal message_handler sends to the bot is accepted
\* by ParseSignal, and the trade parsed has the side, the symbol, the lots,
\* the multiplier, the stop loss and the (first three) take profits that
\* message_handler holds in InfoTrade for the alert.
C15_ForwardedSignalParses ==
  Forwarded =>
    /\ ForwardedParse.status = "ok"
    /\ ForwardedParse.trade.OrderType
         = (IF InfoTrade.TypeOrdre = "BUY" THEN "Buy" ELSE "Sell")
    /\ ForwardedParse.trade.Symbol = InfoTrade.Symbole
    /\ ForwardedParse.trade.PositionSize = InfoTrade.Lots
    /\ IsFloat(InfoTrade.Multiplier)
    /\ ForwardedParse.trade.Multiplier = FloatOf[InfoTrade.Multiplier]
    /\ IsNumber(InfoTrade.StopLoss)
    /\ ForwardedParse.trade.StopLoss = NumberOf(InfoTrade.StopLoss)
    /\ Len(ForwardedParse.trade.TP) \in {1, 2, 3}
    /\ \A i \in 1..Len(ForwardedParse.trade.TP) :
         /\ i <= Len(InfoTrade.TakeProfits)
         /\ IsNumber(InfoTrade.TakeProfits[i])
         /\ ForwardedParse.trade.TP[i] = NumberOf(InfoTrade.TakeProfits[i])
    /\ Len(ForwardedParse.trade.TP) = 3 \/
         Len(ForwardedParse.trade.TP) = Len(InfoTrade.TakeProfits)

\* C21: the table of a resolved trade with N take profits has N take profit
\* distances, the i-th the distance of the i-th take profit from the entry
\* in pips; no distance is negative; the potential loss is the position
\* size times 10 times the stop loss distance times N; the profit of each
\* take profit is that of the position size divided by N, to the nearest
\* hundredth; the total profit is the sum of these profits.
C21_RiskNumbers ==
  risk.evaluated =>
    LET N == Len(risk.trade.TP)
        t == risk.table
    IN  /\ Len(t.TP) = N
        /\ \A i \in 1..N :
             /\ t.TP[i] = Abs(Round(risk.trade.TP[i] - risk.trade.Entry.v,
                                     risk.trade.Multiplier))
             /\ t.TP[i] >= 0
        /\ t.StopLoss >= 0
        /\ t.PotentialLoss = risk.trade.PositionSize * 10 * t.StopLoss * N
        /\ Len(t.Profits) = N
        /\ \A i \in 1..N :
             2 * Abs(N * t.Profits[i] - risk.trade.PositionSize * 10 * t.TP[i]) <= N
        /\ t.TotalProfit = Sum(t.Profits)

\* C21, its case: a table for three take profits at different distances,
\* where a third of the position does not come out even.
C21_Witness ==
  /\ risk.evaluated
  /\ Len(risk.table.TP) = 3
  /\ risk.table.TP[1] < risk.table.TP[2]
  /\ risk.table.TP[3] < risk.table.TP[1]
  /\ risk.table.Profits[2] * 3 # risk.trade.PositionSize * 10 * risk.table.TP[2]
  /\ risk.table.PotentialLoss > 0
  /\ risk.table.TotalProfit
       = risk.table.Profits[1] + risk.table.Profits[2] + risk.table.Profits[3]

\* C22: a chat whose conversation awaits the decision has a trade stored, a
\* dictionary with every key ParseSignal sets; so a /yes is never given to
\* ParseSignal: PlaceTrade runs on the trade the calculation left stored.
C22_DecisionHoldsTrade ==
  /\ \A u \in Users :
       conversations[u] = DECISION =>
         /\ user_data[u] # None
         /\ DOMAIN user_data[u] = TradeKeys
  /\ (last.handler = "PlaceTrade" /\ last.state = DECISION) =>
       /\ ~ParseAttempted
       /\ last.signal = << >>
       /\ ~Sent("parsed") /\ ~Sent("parse_error")
       /\ Ran /\ RunTrade = last.trade

\* C22, its case: /yes after a calculation whose text had two take profits:
\* the orders are those of the stored trade.
C22_Witness ==
  /\ last.handler = "PlaceTrade" /\ last.state = DECISION
  /\ last.command = "/yes"
  /\ last.trade # None
  /\ Len(last.trade.TP) = 2
  /\ Len(Orders) = 2
  /\ Orders[2].takeProfit = last.trade.TP[2]

\* where in the events of the last update the success was told
SuccessPositions ==
  { i \in 1..Len(events) : IsReply(events[i]) /\ events[i].kind = "success" }

\* C23: the success of the trade is told only in a run asked to place the
\* orders in which an order was submitted for every take profit of the trade
\* and none of the submissions raised, and only after the last of them; a
\* run with a submission that raised, or with fewer orders than take
\* profits, does not tell it.
C23_SuccessOnlyAfterAllOrders ==
  /\ Sent("success") =>
       /\ Ran /\ EnterTradeAsked
       /\ Len(Orders) = Len(RunTrade.TP)
       /\ \A k \in 1..Len(Orders) : Orders[k].ok
       /\ \A i \in SuccessPositions : \A j \in OrderPositions : j < i
       /\ Cardinality(SuccessPositions) = 1
  /\ (Ran /\ (Len(Orders) < Len(RunTrade.TP)
               \/ \E k \in 1..Len(Orders) : ~Orders[k].ok)) => ~Sent("success")

\* C23, its case: a text with three take profits sent after /trade: three
\* orders are submitted, none raises, and the success is the last thing told.
C23_Witness ==
  /\ Ran /\ EnterTradeAsked
  /\ last.state = TRADE
  /\ Len(RunTrade.TP) = 3
  /\ Len(Orders) = 3
  /\ \A k \in 1..3 : Orders[k].ok
  /\ SuccessPositions = {Len(events)}

\* the last update was a /yes that ran ConnectMetaTrader on the stored trade
ConfirmRun == Ran /\ last.handler = "PlaceTrade" /\ last.state = DECISION

\* C24: an entry that a calculation has set to a price stays as it is: an
\* update handled while the decision is awaited, and that leaves it awaited,
\* leaves the stored trade unchanged, and the run of /yes on a trade whose
\* entry is a price asks for no price and shows that entry in its table.
C24_ResolvedEntryKept ==
  /\ (last.state = DECISION /\ conversations[last.user] = DECISION) =>
       user_data[last.user] = last.trade
  /\ (ConfirmRun /\ last.trade.Entry.type = "float") =>
       /\ Len(PriceCalls) = 0
       /\ \A i \in TablePositions : events[i].table.Entry = last.trade.Entry.v

\* C24, its case: a Buy calculated at a bid of 101 is confirmed when the bid
\* is 103: no price is asked for, and the table and the orders are those of
\* the entry at 101.
C24_Witness ==
  /\ ConfirmRun
  /\ last.trade.OrderType = "Buy"
  /\ last.trade.Entry = Float(101)
  /\ last.gw.price.bid = 103
  /\ Len(PriceCalls) = 0
  /\ TablePositions # {}
  /\ \A i \in TablePositions : events[i].table.Entry = 101
  /\ Len(Orders) = Len(last.trade.TP)

\* C25 as stated: what message_handler sends for a message depends on that
\* message alone: a signal sent on is the one message_handler would send
\* for the message with InfoTrade empty, whatever the messages before it
\* have left in InfoTrade.
C25_ForwardedFromAlertAlone ==
  Forwarded => sent = Translate(event, NoInfoTrade).sent

=============================================================================
